---------------------------- MODULE Spec2Model ----------------------------
(***************************************************************************)
(* Model of VideoToASCII.play_ascii_video (src/ascii-video.py): the        *)
(* wall-clock driven playback loop that reads frames sequentially from an  *)
(* OpenCV capture, renders the frame that is due, drops the ones that are  *)
(* late, and sleeps until the next frame is due.                           *)
(*                                                                         *)
(* Time is counted in ticks of 0.1 s (the buffer of line 207).  The clock  *)
(* is kept relative to start_time, so that `clock` is what                 *)
(* time.perf_counter() - start_time would return; resetting start_time     *)
(* sets it to 0.  Time may pass between any two steps of the thread        *)
(* (action Tick), which covers read, render, write and sleep latency.      *)
(* Rates are frames per second; a comparison of seconds a/fps < b/TPS is   *)
(* written cross-multiplied, a*TPS < b*fps, to stay in the integers.       *)
(***************************************************************************)
EXTENDS Integers, Naturals, Sequences, FiniteSets, TLC

\* ------------------------------------------------------------------ bounds
MaxFrames == 3

\* one tick is the 0.1 s buffer added to the duration at line 207
Epsilon == 1

TicksPerSec == 10 * Epsilon

\* frame rates the capture may report (0: the property is unavailable)
FpsSet == {0, 1, 5, 10}

\* frame counts the capture may report
FramesSet == 0..MaxFrames

\* last_displayed_frame = None
None == -1

MsgNone == "none"
MsgCompleted == "Video playback completed!"
MsgStopped == "Playback stopped by user"
MsgError == "Error during playback"
MsgOpenError == "Error: Could not open video file"

VARIABLES
    state,                \* scheduler state
    pc,                   \* position of the thread in play_ascii_video
    loop,                 \* argument loop
    video_fps,            \* self.video_fps
    total_frames,         \* self.total_frames
    clock,                \* time.perf_counter() - start_time, in ticks
    elapsed,              \* local elapsed (line 204)
    target_frame_num,     \* local target_frame_num (line 212)
    frame_count,          \* local frame_count
    cap_pos,              \* position of self.cap (index of the next frame read)
    dropped_frames,       \* local dropped_frames
    last_displayed_frame, \* local last_displayed_frame, None = -1
    released,             \* self.cap.release() was called
    statsReported,        \* the PLAYBACK STATISTICS block was printed
    message,              \* the outcome line printed last
    framesRead,           \* history: successful reads since the clock was (re)started
    renderedInIter,       \* history: frames rendered in the current iteration
    justRestarted,        \* history: the last step was a loop restart
    failPending,          \* history: a read failed and none was attempted since
    readFailed,           \* history: some read failed in this session
    cancelledAt,          \* history: pc at which the interrupt was taken
    lastShown,            \* history: index of the last frame written since the (re)start
    quality,              \* self.quality
    skip_frames,          \* self.skip_frames
    stage,                \* how far the converter object has been taken
    chars_len,            \* len(self.ascii_chars)
    ascii_lookup,         \* self.ascii_lookup, as indices into self.ascii_chars
    width_arg,            \* argument width of __init__, None = -1
    term_width,           \* shutil.get_terminal_size().columns
    term_height,          \* shutil.get_terminal_size().lines
    video_width,          \* self.video_width
    video_height,         \* self.video_height
    width,                \* self.width
    ascii_height,         \* self.ascii_height
    pixel,                \* the (r, g, b) of the pixel converted last
    gray,                 \* local gray of frame_to_colored_ascii_fast
    escape,               \* the colour sequence emitted for the pixel
    color_code,           \* local color_code of frame_to_colored_ascii_fast
    frame_value,          \* the intensity of every pixel of the frame to convert
    ascii_str             \* the text returned by frame_to_ascii_fast

vars == <<state, pc, loop, video_fps, total_frames, clock, elapsed,
          target_frame_num, frame_count, cap_pos, dropped_frames,
          last_displayed_frame, released, statsReported, message,
          framesRead, renderedInIter, justRestarted, failPending,
          readFailed, cancelledAt, lastShown, quality, skip_frames, stage,
          chars_len, ascii_lookup, width_arg, term_width, term_height,
          video_width, video_height, width, ascii_height, pixel, gray, escape,
          color_code, frame_value, ascii_str>>

\* the converter object and its inputs
converter == <<quality, skip_frames, stage, chars_len, ascii_lookup, width_arg,
               term_width, term_height, video_width, video_height, width,
               ascii_height, pixel, gray, escape, color_code, frame_value, ascii_str>>

\* the playback session
session == <<state, pc, loop, video_fps, total_frames, clock, elapsed,
             target_frame_num, frame_count, cap_pos, dropped_frames,
             last_displayed_frame, released, statsReported, message,
             framesRead, renderedInIter, justRestarted, failPending,
             readFailed, cancelledAt, lastShown>>

config == <<loop, video_fps, total_frames, converter>>
hist == <<framesRead, renderedInIter, failPending, readFailed, cancelledAt, lastShown>>
outcome == <<released, statsReported, message>>

\* ------------------------------------------------------------- pure parts

\* the clock saturates once every comparison of the loop has been decided:
\* past the duration of the video plus the buffer
MaxClock == (total_frames * TicksPerSec) \div video_fps + Epsilon + 1

\* line 204: elapsed = current_time - start_time
ElapsedStuck == clock - clock
Elapsed == clock

\* line 207: elapsed >= self.video_duration + 0.1, video_duration = total_frames / video_fps
DurationExceededEarly(e) == e * video_fps >= total_frames * TicksPerSec - Epsilon * video_fps
DurationExceeded(e) == e * video_fps >= total_frames * TicksPerSec + Epsilon * video_fps

\* line 212: target_frame_num = int(elapsed * self.video_fps)
TargetFrameNum(e) == (e * video_fps) \div TicksPerSec

\* line 229: while frame_count <= target_frame_num and frame_count < self.total_frames
InnerCondNoTargetBound == frame_count < total_frames
InnerCond == frame_count <= target_frame_num /\ frame_count < total_frames

\* line 245: if frame_count == target_frame_num
IsTargetAlways == TRUE
IsTarget == frame_count = target_frame_num

\* lines 293-296: sleep_duration = frame_count / video_fps - (perf_counter() - start_time),
\* slept only if 0 < sleep_duration < 1
ShouldSleepAnyDuration == TRUE
ShouldSleep ==
    /\ frame_count * TicksPerSec - Elapsed * video_fps > 0
    /\ frame_count * TicksPerSec - Elapsed * video_fps < TicksPerSec * video_fps

\* line 316: Frames displayed: last_displayed_frame + 1 if not None else frame_count
FramesDisplayedStat ==
    IF last_displayed_frame # None THEN last_displayed_frame + 1 ELSE frame_count

\* -------------------------------------------------------- converter parts
\* Python's float arithmetic is modelled by exact rational arithmetic, int()
\* by truncation toward zero.  Where the double result of a product or
\* quotient falls just below an exact integer, so that int() returns one
\* less, the inputs are listed in a "shortfall" set.

Qualities == {"ultra", "high", "medium", "low"}

\* lines 56-67: self.skip_frames
SkipFrames(q) == q \notin {"ultra", "high"}

\* lines 56-67: the cap min(self.width, ...) of each quality
QualityMaxWidth(q) ==
    CASE q = "ultra" -> 200
      [] q = "high" -> 150
      [] q = "medium" -> 100
      [] OTHER -> 80

Min(a, b) == IF a <= b THEN a ELSE b

\* int(n / d) for d > 0: truncation toward zero
Trunc(n, d) == IF n >= 0 THEN n \div d ELSE -((-n) \div d)

\* lines 20-28: the lengths of the ramps of ASCII_CHARS
\* (simple, standard, matrix, blocks, crazy, detailed, ultra)
RampLengths == {5, 10, 12, 13, 25, 70, 92}

\* lines 32, 39: the default style 'ultra'
DefaultRampLength == 92

\* the <<i, chars_len>> with chars_len <= 100 for which (i / 255) * (chars_len - 1)
\* is a double just below an integer
LookupShortfall == {<<155, 52>>, <<187, 76>>, <<147, 86>>, <<171, 86>>}

\* line 74: index = int((i / 255) * (chars_len - 1))
LookupIndexFullLength(i, n) == (i * n) \div 255
LookupIndex(i, n) ==
    (i * (n - 1)) \div 255 - (IF <<i, n>> \in LookupShortfall THEN 1 ELSE 0)

\* lines 69-76: _create_lookup_table; entry i + 1 is the ramp index of intensity i
CreateLookupTable(n) == [k \in 1..256 |-> LookupIndex(k - 1, n)]

\* line 51: int(term_width * 0.95)
AutoWidth(tw) == (tw * 95) \div 100

\* lines 49-67: self.width after __init__
InitWidthUncapped(arg, tw, q) == IF arg = None THEN AutoWidth(tw) ELSE arg
InitWidth(arg, tw, q) ==
    Min(IF arg = None THEN AutoWidth(tw) ELSE arg, QualityMaxWidth(q))

\* lines 108, 120: int(self.width * aspect_ratio * 0.55), aspect_ratio = height / width
HeightFromWidth(w, vw, vh) == Trunc(w * vh * 55, vw * 100)

\* the <<ascii_height, video_width, video_height>> (heights up to 200, the
\* sizes of VideoDims) for which ascii_height / aspect_ratio / 0.55 is a
\* double just below an integer
WidthShortfall ==
    {<<h, 480, 480>> : h \in {33, 55, 66, 99, 110, 121, 132, 198}}
        \cup {<<h, 1080, 1920>> : h \in {44, 88, 176}}

\* line 116: int(self.ascii_height / aspect_ratio / 0.55)
WidthFromHeight(ah, vw, vh) ==
    Trunc(ah * vw * 100, vh * 55) - (IF <<ah, vw, vh>> \in WidthShortfall THEN 1 ELSE 0)

\* lines 102-120: calculate_dimensions; the result is <<self.width, self.ascii_height>>
CalcDimsNoHeightClamp(w0, vw, vh, tw, th) ==
    LET h0 == HeightFromWidth(w0, vw, vh)
    IN  IF w0 > tw - 2
        THEN <<tw - 2, HeightFromWidth(tw - 2, vw, vh)>>
        ELSE <<w0, h0>>
CalcDims(w0, vw, vh, tw, th) ==
    LET h0 == HeightFromWidth(w0, vw, vh)
        max_height == th - 4
        h1 == IF h0 > max_height THEN max_height ELSE h0
        w1 == IF h0 > max_height THEN WidthFromHeight(max_height, vw, vh) ELSE w0
    IN  IF w1 > tw - 2
        THEN <<tw - 2, HeightFromWidth(tw - 2, vw, vh)>>
        ELSE <<w1, h1>>

\* the grey pixels (of ChannelValues) for which 0.299*r + 0.587*g + 0.114*b is a
\* double just below an integer
GrayShortfall == {<<1, 1, 1>>, <<2, 2, 2>>, <<51, 51, 51>>, <<128, 128, 128>>}

\* line 153: gray = int(0.299 * r + 0.587 * g + 0.114 * b)
Gray(r, g, b) ==
    (299 * r + 587 * g + 114 * b) \div 1000
        - (IF <<r, g, b>> \in GrayShortfall THEN 1 ELSE 0)

\* r, g, b are numpy.uint8: arithmetic on them is modulo 256
U8(x) == x % 256

\* line 161: color_code = 16 + (r//51)*36 + (g//51)*6 + (b//51)
ColorCodeWide(r, g, b) ==
    U8(U8(U8(16 + U8(U8(r \div 51) * 42)) + U8(U8(g \div 51) * 6)) + U8(b \div 51))
ColorCode(r, g, b) ==
    U8(U8(U8(16 + U8(U8(r \div 51) * 36)) + U8(U8(g \div 51) * 6)) + U8(b \div 51))

\* lines 157-162: the colour sequence of a pixel
Escape(q) == IF q \in {"ultra", "high"} THEN "38;2" ELSE "38;5"

\* one character of the text of a frame
Glyph(i) == <<"glyph", i>>
Newline == <<"newline", 0>>

\* line 131: cv2.resize of a frame whose pixels all have the intensity v
\* (after the grey conversion of lines 125-128): h rows of w pixels
Resize(v, w, h) == [y \in 1..h |-> [x \in 1..w |-> v]]

\* lines 136-137: ''.join(self.ascii_lookup[pixel] for pixel in row) + '\n'
RowTextNoNewline(row) == [x \in 1..Len(row) |-> Glyph(ascii_lookup[row[x] + 1])]
RowText(row) ==
    [x \in 1..Len(row) |-> Glyph(ascii_lookup[row[x] + 1])] \o <<Newline>>

\* lines 134-139: the text of the rows, in order
RECURSIVE FrameText(_)
FrameText(rows) ==
    IF rows = <<>> THEN <<>> ELSE RowText(Head(rows)) \o FrameText(Tail(rows))

\* the fields of the converter that a specification does not follow
OutputsAtRest ==
    /\ pixel = <<>>
    /\ gray = 0
    /\ escape = "none"
    /\ color_code = None
    /\ ascii_str = <<>>
ConverterAtRest ==
    /\ stage = "playing"
    /\ chars_len = DefaultRampLength
    /\ ascii_lookup = <<>>
    /\ width_arg = None
    /\ term_width = 0
    /\ term_height = 0
    /\ video_width = 0
    /\ video_height = 0
    /\ width = 0
    /\ ascii_height = 0
    /\ frame_value = 0
    /\ OutputsAtRest

\* ------------------------------------------------------------------- Init

\* line 32: the default quality
DefaultQuality == "high"

\* the session before play_ascii_video is called
SessionAtRest ==
    /\ state = "Idle"
    /\ pc = "call"
    /\ clock = 0
    /\ elapsed = 0
    /\ target_frame_num = 0
    /\ frame_count = 0
    /\ cap_pos = 0
    /\ dropped_frames = 0
    /\ last_displayed_frame = None
    /\ released = FALSE
    /\ statsReported = FALSE
    /\ message = MsgNone
    /\ framesRead = 0
    /\ renderedInIter = 0
    /\ justRestarted = FALSE
    /\ failPending = FALSE
    /\ readFailed = FALSE
    /\ cancelledAt = "none"
    /\ lastShown = None

Init ==
    /\ state = "Idle"
    /\ pc = "call"
    /\ loop \in BOOLEAN
    /\ video_fps \in FpsSet
    /\ total_frames \in FramesSet
    /\ clock = 0
    /\ elapsed = 0
    /\ target_frame_num = 0
    /\ frame_count = 0
    /\ cap_pos = 0
    /\ dropped_frames = 0
    /\ last_displayed_frame = None
    /\ released = FALSE
    /\ statsReported = FALSE
    /\ message = MsgNone
    /\ framesRead = 0
    /\ renderedInIter = 0
    /\ justRestarted = FALSE
    /\ failPending = FALSE
    /\ readFailed = FALSE
    /\ cancelledAt = "none"
    /\ lastShown = None
    /\ quality = DefaultQuality
    /\ skip_frames = SkipFrames(quality)
    /\ ConverterAtRest

\* sessions of every quality, at the highest frame rate of FpsSet (and at 0)
TierInit ==
    /\ SessionAtRest
    /\ loop \in BOOLEAN
    /\ video_fps \in {0, 10}
    /\ total_frames \in FramesSet
    /\ quality \in Qualities
    /\ skip_frames = SkipFrames(quality)
    /\ ConverterAtRest

\* ---------------------------------------------------------------- helpers

\* lines 305-321: the finally clause of the try statement
FinallySkipRelease(st, msg) ==
    /\ state' = st
    /\ message' = msg
    /\ pc' = "done"
    /\ released' = released
    /\ statsReported' = TRUE
Finally(st, msg) ==
    /\ state' = st
    /\ message' = msg
    /\ pc' = "done"
    /\ released' = TRUE
    /\ statsReported' = TRUE

\* lines 216-219 and 235-238: rewind the capture and restart the clock
RestartKeepPos ==
    /\ cap_pos' = cap_pos
    /\ frame_count' = 0
    /\ clock' = 0
    /\ dropped_frames' = 0
    /\ framesRead' = 0
    /\ justRestarted' = TRUE
    /\ lastShown' = None
Restart ==
    /\ cap_pos' = 0
    /\ frame_count' = 0
    /\ clock' = 0
    /\ dropped_frames' = 0
    /\ framesRead' = 0
    /\ justRestarted' = TRUE
    /\ lastShown' = None

\* ---------------------------------------------------------------- actions

\* lines 80-83: the capture does not open
OpenFails ==
    /\ pc = "call"
    /\ pc' = "done"
    /\ state' = "OpenFailed"
    /\ message' = MsgOpenError
    /\ justRestarted' = FALSE
    /\ UNCHANGED <<config, clock, elapsed, target_frame_num, frame_count, cap_pos,
                   dropped_frames, last_displayed_frame, released, statsReported, hist>>

\* line 90 (and 93): total_frames / video_fps with video_fps = 0.0 raises
\* ZeroDivisionError outside the try statement of play_ascii_video
InitializeDivZero ==
    /\ pc = "call"
    /\ video_fps = 0
    /\ pc' = "done"
    /\ state' = "Crashed"
    /\ justRestarted' = FALSE
    /\ UNCHANGED <<config, clock, elapsed, target_frame_num, frame_count, cap_pos,
                   dropped_frames, last_displayed_frame, outcome, hist>>

\* lines 78-95: initialize_video returns True
InitializeOK ==
    /\ pc = "call"
    /\ video_fps # 0
    /\ pc' = "startup"
    /\ justRestarted' = FALSE
    /\ UNCHANGED <<state, config, clock, elapsed, target_frame_num, frame_count, cap_pos,
                   dropped_frames, last_displayed_frame, outcome, hist>>

\* lines 178-199: dimensions, banner, sleep(2), locals; the try statement is entered
Startup ==
    /\ pc = "startup"
    /\ pc' = "head"
    /\ state' = "Running"
    /\ frame_count' = 0
    /\ clock' = 0
    /\ dropped_frames' = 0
    /\ last_displayed_frame' = None
    /\ justRestarted' = FALSE
    /\ UNCHANGED <<config, elapsed, target_frame_num, cap_pos, outcome, hist>>

\* a KeyboardInterrupt during lines 178-199 is outside the try statement
InterruptStartup ==
    /\ pc = "startup"
    /\ pc' = "done"
    /\ state' = "Aborted"
    /\ justRestarted' = FALSE
    /\ UNCHANGED <<config, clock, elapsed, target_frame_num, frame_count, cap_pos,
                   dropped_frames, last_displayed_frame, outcome, hist>>

\* lines 203-209: the duration is exceeded and the session does not loop
HeadDurationExceeded ==
    /\ pc = "head"
    /\ DurationExceeded(Elapsed) /\ ~loop
    /\ elapsed' = Elapsed
    /\ Finally("Completed", MsgCompleted)
    /\ justRestarted' = FALSE
    /\ UNCHANGED <<config, clock, target_frame_num, frame_count, cap_pos,
                   dropped_frames, last_displayed_frame, hist>>

\* lines 203-220: looping and the target is past the last frame
HeadLoopRestart ==
    /\ pc = "head"
    /\ loop /\ TargetFrameNum(Elapsed) >= total_frames
    /\ elapsed' = Elapsed
    /\ target_frame_num' = TargetFrameNum(Elapsed)
    /\ Restart
    /\ renderedInIter' = 0
    /\ UNCHANGED <<state, pc, config, last_displayed_frame, outcome,
                   failPending, readFailed, cancelledAt>>

\* lines 203-226: the target is past the last frame and the session does not loop
HeadPastEnd ==
    /\ pc = "head"
    /\ ~(DurationExceeded(Elapsed) /\ ~loop)
    /\ ~loop /\ TargetFrameNum(Elapsed) >= total_frames
    /\ elapsed' = Elapsed
    /\ target_frame_num' = TargetFrameNum(Elapsed)
    /\ Finally("Completed", MsgCompleted)
    /\ justRestarted' = FALSE
    /\ UNCHANGED <<config, clock, frame_count, cap_pos,
                   dropped_frames, last_displayed_frame, hist>>

\* lines 203-228: the inner loop is reached
HeadContinue ==
    /\ pc = "head"
    /\ ~(DurationExceeded(Elapsed) /\ ~loop)
    /\ TargetFrameNum(Elapsed) < total_frames
    /\ elapsed' = Elapsed
    /\ target_frame_num' = TargetFrameNum(Elapsed)
    /\ pc' = "inner"
    /\ renderedInIter' = 0
    /\ justRestarted' = FALSE
    /\ UNCHANGED <<state, config, clock, frame_count, cap_pos, dropped_frames,
                   last_displayed_frame, outcome, framesRead, failPending,
                   readFailed, cancelledAt, lastShown>>

\* line 229: the condition of the inner loop is false
InnerExit ==
    /\ pc = "inner"
    /\ ~InnerCond
    /\ pc' = "tail"
    /\ justRestarted' = FALSE
    /\ UNCHANGED <<state, config, clock, elapsed, target_frame_num, frame_count, cap_pos,
                   dropped_frames, last_displayed_frame, outcome, hist>>

\* lines 230, 245: a frame is read and it is the target
ReadTarget ==
    /\ pc = "inner"
    /\ InnerCond
    /\ IsTarget
    /\ cap_pos' = cap_pos + 1
    /\ framesRead' = framesRead + 1
    /\ failPending' = FALSE
    /\ pc' = "render"
    /\ justRestarted' = FALSE
    /\ UNCHANGED <<state, config, clock, elapsed, target_frame_num, frame_count,
                   dropped_frames, last_displayed_frame, outcome, renderedInIter,
                   readFailed, cancelledAt, lastShown>>

\* lines 230, 281-285: a frame is read and it is not the target
ReadDrop ==
    /\ pc = "inner"
    /\ InnerCond
    /\ ~IsTarget
    /\ cap_pos' = cap_pos + 1
    /\ framesRead' = framesRead + 1
    /\ failPending' = FALSE
    /\ dropped_frames' = dropped_frames + 1
    /\ frame_count' = frame_count + 1
    /\ justRestarted' = FALSE
    /\ UNCHANGED <<state, pc, config, clock, elapsed, target_frame_num,
                   last_displayed_frame, outcome, renderedInIter, readFailed, cancelledAt,
                   lastShown>>

\* lines 230-239: the read fails and the session loops
ReadFailLoop ==
    /\ pc = "inner"
    /\ InnerCond
    /\ loop
    /\ Restart
    /\ failPending' = TRUE
    /\ readFailed' = TRUE
    /\ pc' = "tail"
    /\ UNCHANGED <<state, config, elapsed, target_frame_num, last_displayed_frame,
                   outcome, renderedInIter, cancelledAt>>

\* lines 230-242: the read fails and the session does not loop
ReadFailNoLoop ==
    /\ pc = "inner"
    /\ InnerCond
    /\ ~loop
    /\ failPending' = TRUE
    /\ readFailed' = TRUE
    /\ Finally("Completed", MsgCompleted)
    /\ justRestarted' = FALSE
    /\ UNCHANGED <<config, clock, elapsed, target_frame_num, frame_count, cap_pos,
                   dropped_frames, last_displayed_frame, framesRead, renderedInIter,
                   cancelledAt, lastShown>>

\* lines 247-253: the frame is converted to text
Render ==
    /\ pc = "render"
    /\ pc' = "clear"
    /\ justRestarted' = FALSE
    /\ UNCHANGED <<state, config, clock, elapsed, target_frame_num, frame_count, cap_pos,
                   dropped_frames, last_displayed_frame, outcome, hist>>

\* lines 250-253, 301-304: the conversion raises (cv2.resize rejects the size)
RenderRaises ==
    /\ pc = "render"
    /\ Finally("Error", MsgError)
    /\ justRestarted' = FALSE
    /\ UNCHANGED <<config, clock, elapsed, target_frame_num, frame_count, cap_pos,
                   dropped_frames, last_displayed_frame, hist>>

\* line 256: clear_screen()
ClearScreen ==
    /\ pc = "clear"
    /\ pc' = "print"
    /\ justRestarted' = FALSE
    /\ UNCHANGED <<state, config, clock, elapsed, target_frame_num, frame_count, cap_pos,
                   dropped_frames, last_displayed_frame, outcome, hist>>

\* lines 257-258: print(ascii_art); last_displayed_frame = frame_count
PrintFrame ==
    /\ pc = "print"
    /\ pc' = "info"
    /\ last_displayed_frame' = frame_count
    /\ lastShown' = frame_count
    /\ renderedInIter' = renderedInIter + 1
    /\ justRestarted' = FALSE
    /\ UNCHANGED <<state, config, clock, elapsed, target_frame_num, frame_count, cap_pos,
                   dropped_frames, outcome, framesRead, failPending, readFailed,
                   cancelledAt>>

\* lines 260-285: the status line, the processing time, frame_count += 1
ShowInfoNoAdvance ==
    /\ pc = "info"
    /\ pc' = "inner"
    /\ frame_count' = frame_count
    /\ justRestarted' = FALSE
    /\ UNCHANGED <<state, config, clock, elapsed, target_frame_num, cap_pos,
                   dropped_frames, last_displayed_frame, outcome, hist>>
ShowInfo ==
    /\ pc = "info"
    /\ pc' = "inner"
    /\ frame_count' = frame_count + 1
    /\ justRestarted' = FALSE
    /\ UNCHANGED <<state, config, clock, elapsed, target_frame_num, cap_pos,
                   dropped_frames, last_displayed_frame, outcome, hist>>

\* lines 288-290: every frame was processed and the session does not loop
TailAllProcessedAnyLoop ==
    /\ pc = "tail"
    /\ frame_count >= total_frames
    /\ Finally("Completed", MsgCompleted)
    /\ justRestarted' = FALSE
    /\ UNCHANGED <<config, clock, elapsed, target_frame_num, frame_count, cap_pos,
                   dropped_frames, last_displayed_frame, hist>>
TailAllProcessed ==
    /\ pc = "tail"
    /\ frame_count >= total_frames /\ ~loop
    /\ Finally("Completed", MsgCompleted)
    /\ justRestarted' = FALSE
    /\ UNCHANGED <<config, clock, elapsed, target_frame_num, frame_count, cap_pos,
                   dropped_frames, last_displayed_frame, hist>>

\* lines 293-297: time.sleep(sleep_duration) is called
TailSleep ==
    /\ pc = "tail"
    /\ ~(frame_count >= total_frames /\ ~loop)
    /\ ShouldSleep
    /\ pc' = "sleep"
    /\ justRestarted' = FALSE
    /\ UNCHANGED <<state, config, clock, elapsed, target_frame_num, frame_count, cap_pos,
                   dropped_frames, last_displayed_frame, outcome, hist>>

\* lines 293-296: no sleep, next iteration
TailNoSleep ==
    /\ pc = "tail"
    /\ ~(frame_count >= total_frames /\ ~loop)
    /\ ~ShouldSleep
    /\ pc' = "head"
    /\ justRestarted' = FALSE
    /\ UNCHANGED <<state, config, clock, elapsed, target_frame_num, frame_count, cap_pos,
                   dropped_frames, last_displayed_frame, outcome, hist>>

\* line 297: time.sleep returns once the due time frame_count / video_fps has come
SleepWake ==
    /\ pc = "sleep"
    /\ clock * video_fps >= frame_count * TicksPerSec
    /\ pc' = "head"
    /\ justRestarted' = FALSE
    /\ UNCHANGED <<state, config, clock, elapsed, target_frame_num, frame_count, cap_pos,
                   dropped_frames, last_displayed_frame, outcome, hist>>

\* lines 299-300: KeyboardInterrupt raised anywhere inside the try statement
Interrupt ==
    /\ state = "Running"
    /\ cancelledAt' = pc
    /\ Finally("Cancelled", MsgStopped)
    /\ justRestarted' = FALSE
    /\ UNCHANGED <<config, clock, elapsed, target_frame_num, frame_count, cap_pos,
                   dropped_frames, last_displayed_frame, framesRead, renderedInIter,
                   failPending, readFailed, lastShown>>

\* wall-clock time advances while the session is running
Tick ==
    /\ state = "Running"
    /\ clock < MaxClock
    /\ clock' = clock + 1
    /\ justRestarted' = FALSE
    /\ UNCHANGED <<state, pc, config, elapsed, target_frame_num, frame_count, cap_pos,
                   dropped_frames, last_displayed_frame, outcome, hist>>

Step ==
    \/ OpenFails
    \/ InitializeDivZero
    \/ InitializeOK
    \/ Startup
    \/ HeadDurationExceeded
    \/ HeadLoopRestart
    \/ HeadPastEnd
    \/ HeadContinue
    \/ InnerExit
    \/ ReadTarget
    \/ ReadDrop
    \/ ReadFailLoop
    \/ ReadFailNoLoop
    \/ Render
    \/ ClearScreen
    \/ PrintFrame
    \/ ShowInfo
    \/ TailAllProcessed
    \/ TailSleep
    \/ TailNoSleep
    \/ SleepWake

Next ==
    \/ Step
    \/ RenderRaises
    \/ InterruptStartup
    \/ Interrupt
    \/ Tick

Spec == Init /\ [][Next]_vars

\* the thread keeps running and the wall clock keeps advancing
LiveSpec == Spec /\ WF_vars(Step) /\ WF_vars(Tick)

\* the playback session for each quality
TierSpec == TierInit /\ [][Next]_vars

\* ---------------------------------------------- inputs of the converter

MaxCols == 4
MaxRows == 2

\* channel values of a pixel
ChannelValues == {0, 1, 2, 51, 128, 255}

\* intensities of a frame
Intensities == {0, 1, 127, 128, 254, 255}

\* argument width: None (what main passes), or a number
WidthArgs == {None, 300}

\* terminal sizes, from too small to large
TermWidths == {1, 6, 80, 250}
TermHeights == {3, 4, 5, 24, 50}

\* lines 88-89: <<CAP_PROP_FRAME_WIDTH, CAP_PROP_FRAME_HEIGHT>>
VideoDims == {<<1920, 1080>>, <<1080, 1920>>, <<480, 480>>}

\* ------------------------------------------------- actions of the converter

\* lines 31-67: __init__
Construct ==
    /\ stage = "new"
    /\ stage' = "constructed"
    /\ ascii_lookup' = CreateLookupTable(chars_len)
    /\ width' = InitWidth(width_arg, term_width, quality)
    /\ skip_frames' = SkipFrames(quality)
    /\ UNCHANGED <<session, quality, chars_len, width_arg, term_width, term_height,
                   video_width, video_height, ascii_height, pixel, gray, escape,
                   color_code, frame_value, ascii_str>>

\* lines 102-120: calculate_dimensions
CalculateDimensions ==
    /\ stage = "constructed"
    /\ stage' = "sized"
    /\ width' = CalcDims(width, video_width, video_height, term_width, term_height)[1]
    /\ ascii_height' = CalcDims(width, video_width, video_height, term_width, term_height)[2]
    /\ UNCHANGED <<session, quality, skip_frames, chars_len, ascii_lookup, width_arg,
                   term_width, term_height, video_width, video_height, pixel, gray,
                   escape, color_code, frame_value, ascii_str>>

\* lines 152-162: one pixel of frame_to_colored_ascii_fast (the pixels are
\* converted independently of each other; one conversion is followed)
ColorPixel ==
    /\ stage \in {"constructed", "sized"}
    /\ pixel = <<>>
    /\ \E r \in ChannelValues, g \in ChannelValues, b \in ChannelValues :
          /\ pixel' = <<r, g, b>>
          /\ gray' = Gray(r, g, b)
          /\ escape' = Escape(quality)
          /\ color_code' = IF Escape(quality) = "38;5" THEN ColorCode(r, g, b) ELSE None
    /\ UNCHANGED <<session, quality, skip_frames, stage, chars_len, ascii_lookup,
                   width_arg, term_width, term_height, video_width, video_height,
                   width, ascii_height, frame_value, ascii_str>>

\* lines 122-139: frame_to_ascii_fast on a frame of one intensity
FrameToAscii ==
    /\ stage = "sized"
    /\ width > 0 /\ ascii_height > 0
    /\ stage' = "rendered"
    /\ ascii_str' = FrameText(Resize(frame_value, width, ascii_height))
    /\ UNCHANGED <<session, quality, skip_frames, chars_len, ascii_lookup, width_arg,
                   term_width, term_height, video_width, video_height, width,
                   ascii_height, pixel, gray, escape, color_code, frame_value>>

\* line 131: cv2.resize raises for a size that is not positive
FrameToAsciiRaises ==
    /\ stage = "sized"
    /\ ~(width > 0 /\ ascii_height > 0)
    /\ stage' = "error"
    /\ UNCHANGED <<session, quality, skip_frames, chars_len, ascii_lookup, width_arg,
                   term_width, term_height, video_width, video_height, width,
                   ascii_height, pixel, gray, escape, color_code, frame_value, ascii_str>>

\* the pixel mapper: every ramp and quality
MapperInit ==
    /\ SessionAtRest
    /\ loop = FALSE /\ video_fps = 0 /\ total_frames = 0
    /\ stage = "new"
    /\ quality \in Qualities
    /\ skip_frames = FALSE
    /\ chars_len \in RampLengths
    /\ ascii_lookup = <<>>
    /\ width_arg = None
    /\ term_width = 80 /\ term_height = 24
    /\ video_width = 0 /\ video_height = 0
    /\ width = 0 /\ ascii_height = 0
    /\ frame_value = 0
    /\ OutputsAtRest
MapperNext == Construct \/ ColorPixel
MapperSpec == MapperInit /\ [][MapperNext]_vars

\* the dimensions: every quality, terminal size and video size
DimInit ==
    /\ SessionAtRest
    /\ loop = FALSE /\ video_fps = 0 /\ total_frames = 0
    /\ stage = "new"
    /\ quality \in Qualities
    /\ skip_frames = FALSE
    /\ chars_len = DefaultRampLength
    /\ ascii_lookup = <<>>
    /\ width_arg \in WidthArgs
    /\ term_width \in TermWidths /\ term_height \in TermHeights
    /\ \E d \in VideoDims : video_width = d[1] /\ video_height = d[2]
    /\ width = 0 /\ ascii_height = 0
    /\ frame_value = 0
    /\ OutputsAtRest
DimNext == Construct \/ CalculateDimensions \/ ColorPixel
DimSpec == DimInit /\ [][DimNext]_vars

\* monochrome conversion on small grids
MonoInit ==
    /\ SessionAtRest
    /\ loop = FALSE /\ video_fps = 0 /\ total_frames = 0
    /\ stage = "sized"
    /\ quality = DefaultQuality
    /\ skip_frames = SkipFrames(quality)
    /\ chars_len \in RampLengths
    /\ ascii_lookup = CreateLookupTable(chars_len)
    /\ width_arg = None
    /\ term_width = 80 /\ term_height = 24
    /\ video_width = 0 /\ video_height = 0
    /\ width \in 0..MaxCols /\ ascii_height \in 0..MaxRows
    /\ frame_value \in Intensities
    /\ OutputsAtRest
MonoNext == FrameToAscii \/ FrameToAsciiRaises
MonoSpec == MonoInit /\ [][MonoNext]_vars

\* ----------------------------------------------------------------- claims

RenderPcs == {"render", "clear", "print", "info"}
Exited == {"Completed", "Cancelled", "Error"}

\* C1: in a non-looping session the displayed-frame count of the final
\* statistics plus dropped_frames equals the number of successful reads, at
\* every point of play_ascii_video where no frame is in hand (each frame read
\* has been either displayed or dropped).
C1_DropAccounting ==
    (~loop /\ state \in {"Running", "Completed"} /\ pc \notin RenderPcs) =>
        FramesDisplayedStat + dropped_frames = framesRead

\* C2: an iteration renders at most one frame, only the frame whose index is
\* floor(elapsed * video_fps) for the elapsed time taken at the start of the
\* iteration; a frame read with another index is not rendered and adds exactly
\* one to dropped_frames.
C2_Inv ==
    /\ renderedInIter <= 1
    /\ pc \in RenderPcs =>
          /\ frame_count = target_frame_num
          /\ target_frame_num * TicksPerSec <= elapsed * video_fps
          /\ elapsed * video_fps < (target_frame_num + 1) * TicksPerSec
          /\ elapsed <= clock
C2_ReadStep ==
    (framesRead' = framesRead + 1) =>
        IF frame_count = target_frame_num
        THEN /\ pc' = "render"
             /\ dropped_frames' = dropped_frames
        ELSE /\ pc' \notin RenderPcs
             /\ dropped_frames' = dropped_frames + 1
             /\ renderedInIter' = renderedInIter
             /\ last_displayed_frame' = last_displayed_frame
C2_OneTargetPerIteration == [](C2_Inv) /\ [][C2_ReadStep]_vars

\* C2 witness: in one iteration a late frame was dropped and the target shown
C2_Witness ==
    /\ pc = "info"
    /\ renderedInIter = 1
    /\ dropped_frames > 0
    /\ last_displayed_frame = target_frame_num

C4_Original ==
    (state = "Completed") =>
        \/ clock * video_fps >= total_frames * TicksPerSec
        \/ readFailed

\* C4 as amended: a non-looping session completes only when the elapsed time
\* has reached total_frames / video_fps, or a read reported the end of the
\* stream, or every frame was read (frame_count >= total_frames).
C4_Amended ==
    (state = "Completed") =>
        \/ clock * video_fps >= total_frames * TicksPerSec
        \/ readFailed
        \/ frame_count >= total_frames

\* C4 witness: completion before the duration has elapsed, all frames read
C4_Witness ==
    /\ state = "Completed"
    /\ ~readFailed
    /\ clock * video_fps < total_frames * TicksPerSec
    /\ frame_count >= total_frames

\* C5: right after a loop restart the source position and frame_count are 0,
\* the clock is restarted and the statistics dropped_frames and
\* last_displayed_frame have their initial values.
C5_RestartResetsAll ==
    justRestarted =>
        /\ cap_pos = 0
        /\ frame_count = 0
        /\ clock = 0
        /\ dropped_frames = 0
        /\ last_displayed_frame = None

\* C6: an interrupt never takes the session to Cancelled while a frame is being
\* converted or written: a frame whose display has started is written completely.
C6_NoMidFrameCancel == cancelledAt \notin {"render", "clear", "print"}

\* C7: whenever the session has left Running (completed, cancelled or failed)
\* the capture is released and the statistics are printed, and nothing is read
\* from the capture once it is released.
C7_Inv == (state \in Exited) => (released /\ statsReported)
C7_Step ==
    /\ (state = "Running" /\ state' # "Running") => (released' /\ statsReported')
    /\ released => (cap_pos' = cap_pos /\ framesRead' = framesRead /\ released')
C7_ReleasedOnExit == [](C7_Inv) /\ [][C7_Step]_vars

\* C7 witness: the exit by the return statement of the failed read
C7_Witness ==
    /\ state = "Completed"
    /\ readFailed
    /\ framesRead > 0
    /\ released
    /\ statsReported

\* C8: with video_fps <= 0 or total_frames <= 0 the session never runs: no
\* division by the frame rate is evaluated, no iteration runs, no frame is read.
C8_DegenerateIsFatal ==
    (video_fps <= 0 \/ total_frames <= 0) =>
        /\ state \notin {"Running", "Crashed"} \cup Exited
        /\ framesRead = 0

\* C9: a failed read is never retried: without looping the session completes
\* and reads nothing more; with looping the failed read rewinds the source to
\* frame 0 and restarts, and the next read is the read of frame 0.
C9_Inv ==
    /\ (readFailed /\ ~loop) => state = "Completed"
    /\ (failPending /\ loop) => (cap_pos = 0 /\ frame_count = 0)
C9_Step ==
    /\ (readFailed /\ ~loop) => (framesRead' = framesRead /\ cap_pos' = cap_pos)
    /\ (loop /\ ~failPending /\ failPending') => (justRestarted' /\ state' = "Running")
C9_NoRetry == [](C9_Inv) /\ [][C9_Step]_vars

\* C9 witness: a looping session about to read again after a read that failed
\* in the middle of the stream
C9_Witness ==
    /\ loop
    /\ failPending
    /\ pc = "inner"
    /\ InnerCond
    /\ last_displayed_frame # None
    /\ last_displayed_frame > 0

\* C10: a session ended by a failed read reports an outcome that differs from
\* the one of a normal completion.
C10_ReadFailureDistinct ==
    (state = "Completed" /\ readFailed) => message # MsgCompleted

\* C11: with quality 'ultra' or 'high' (skip_frames False, "no frame skip") no
\* frame is ever skipped: dropped_frames stays 0 for the whole session.
C11_NoSkipInHighTiers == (~skip_frames) => dropped_frames = 0

\* C12: for every intensity i the table selects the ramp index
\* floor(i/255*(N-1)); the index is in 0..N-1, does not decrease with i, is 0
\* for i = 0 and N-1 for i = 255.
C12_LookupIsFloor ==
    (stage # "new") =>
        /\ \A i \in 0..255 :
              /\ ascii_lookup[i + 1] \in 0..(chars_len - 1)
              /\ ascii_lookup[i + 1] * 255 <= i * (chars_len - 1)
              /\ i * (chars_len - 1) < (ascii_lookup[i + 1] + 1) * 255
              /\ (i > 0) => ascii_lookup[i] <= ascii_lookup[i + 1]
        /\ ascii_lookup[1] = 0
        /\ ascii_lookup[256] = chars_len - 1

\* C12 witness: the table of the longest ramp is built
C12_Witness ==
    /\ stage = "constructed"
    /\ chars_len = 92
    /\ ascii_lookup[129] = 45
    /\ ascii_lookup[256] = 91

\* C13: the luminance of a coloured pixel is 0.299r + 0.587g + 0.114b rounded
\* to the nearest integer, and is a lookup index in 0..255.
C13_GrayIsRounded ==
    (pixel # <<>>) =>
        LET s == 299 * pixel[1] + 587 * pixel[2] + 114 * pixel[3]
        IN  /\ gray \in 0..255
            /\ 2 * (1000 * gray - s) <= 1000
            /\ 2 * (s - 1000 * gray) <= 1000

\* C14: the palette code of a pixel is 16 + 36*floor(r/51) + 6*floor(g/51) +
\* floor(b/51), lies in 16..231, and is 16 for black.
C14_PaletteRange ==
    (pixel # <<>> /\ escape = "38;5") =>
        /\ color_code \in 16..231
        /\ color_code = 16 + 36 * (pixel[1] \div 51) + 6 * (pixel[2] \div 51)
                           + (pixel[3] \div 51)
        /\ (pixel = <<0, 0, 0>>) => color_code = 16

\* C14 witness: a white pixel in palette mode
C14_Witness ==
    /\ escape = "38;5"
    /\ pixel = <<255, 255, 255>>
    /\ color_code = 231

\* C15: for every terminal size and video size calculate_dimensions leaves a
\* grid with width > 0 and ascii_height > 0.
C15_PositiveGrid == (stage = "sized") => (width > 0 /\ ascii_height > 0)

\* C16: the width never exceeds 200 (ultra), 150 (high), 100 (medium), 80
\* (low), after __init__ and after calculate_dimensions; a coloured pixel gets a
\* true-colour sequence exactly for ultra/high, a palette sequence exactly for
\* medium/low.
C16_TierCaps ==
    /\ (stage \in {"constructed", "sized"}) =>
          /\ (quality = "ultra") => width <= 200
          /\ (quality = "high") => width <= 150
          /\ (quality = "medium") => width <= 100
          /\ (quality = "low") => width <= 80
    /\ (pixel # <<>>) =>
          /\ (escape = "38;2") <=> (quality \in {"ultra", "high"})
          /\ (escape = "38;5") <=> (quality \in {"medium", "low"})

\* C16 witness: a medium-quality grid at its cap, with a palette-coloured pixel
C16_Witness ==
    /\ stage = "sized"
    /\ quality = "medium"
    /\ width = 100
    /\ escape = "38;5"

\* C17: time.sleep is called only with a duration d = frame_count / video_fps -
\* elapsed such that 0 < d < 1 s.
C17_SleepStep ==
    (pc' = "sleep" /\ pc # "sleep") =>
        /\ frame_count * TicksPerSec - clock * video_fps > 0
        /\ frame_count * TicksPerSec - clock * video_fps < TicksPerSec * video_fps
C17_SleepBounded == [][C17_SleepStep]_vars

\* C17 witness: the thread sleeps until the next frame is due
C17_Witness ==
    /\ pc = "sleep"
    /\ frame_count > 0
    /\ clock * video_fps < frame_count * TicksPerSec

\* C18: between two restarts each frame written has a larger index than the
\* frame written before it.
C18_PrintStep ==
    (renderedInIter' = renderedInIter + 1) =>
        /\ frame_count > lastShown
        /\ lastShown' = frame_count
C18_StrictOrder == [][C18_PrintStep]_vars

\* C18 witness: a frame is written after an earlier frame was written and
\* another was dropped
C18_Witness ==
    /\ pc = "info"
    /\ lastShown >= 2
    /\ dropped_frames > 0
    /\ dropped_frames < lastShown

\* C19: after calculate_dimensions the grid fits the terminal:
\* width <= columns - 2 and ascii_height <= lines - 4.
C19_FitsTerminal ==
    (stage = "sized") =>
        /\ width <= term_width - 2
        /\ ascii_height <= term_height - 4

\* C19 witness: the height was clamped, then the width
C19_Witness ==
    /\ stage = "sized"
    /\ HeightFromWidth(InitWidth(width_arg, term_width, quality),
                       video_width, video_height) > term_height - 4
    /\ WidthFromHeight(term_height - 4, video_width, video_height) > term_width - 2
    /\ width = term_width - 2
    /\ width > 0

\* C20: the text of a frame of one intensity v is ascii_height lines of width
\* copies of the glyph of v, each followed by a newline; the glyph is the first
\* of the ramp for v = 0 and the last for v = 255 (so with a ramp of two glyphs).
C20_UniformFrameText ==
    (stage = "rendered") =>
        LET idx == ascii_lookup[frame_value + 1]
        IN  /\ Len(ascii_str) = ascii_height * (width + 1)
            /\ \A k \in 1..Len(ascii_str) :
                  ascii_str[k] = IF k % (width + 1) = 0 THEN Newline ELSE Glyph(idx)
            /\ idx * 255 <= frame_value * (chars_len - 1)
            /\ frame_value * (chars_len - 1) < (idx + 1) * 255
            /\ (frame_value = 0) => idx = 0
            /\ (frame_value = 255) => idx = chars_len - 1
            /\ LookupIndex(0, 2) = 0 /\ LookupIndex(255, 2) = 1

\* C20 witness: a 4 x 2 grid of the brightest glyph
C20_Witness ==
    /\ stage = "rendered"
    /\ width = 4
    /\ ascii_height = 2
    /\ frame_value = 255
    /\ Len(ascii_str) = 10
    /\ ascii_str[1] = Glyph(chars_len - 1)
    /\ ascii_str[5] = Newline

\* C21: no frame is read or written ahead of schedule.  The frame read is the
\* frame at frame_count, it is at most the target floor(elapsed * video_fps)
\* of the iteration and below total_frames; at the end of an iteration
\* frame_count <= min(target_frame_num + 1, total_frames); a frame in hand is
\* the target and its due time frame_count / video_fps has come.
C21_Inv ==
    /\ (pc \in RenderPcs) =>
          /\ frame_count = target_frame_num
          /\ frame_count < total_frames
          /\ cap_pos = frame_count + 1
          /\ clock * video_fps >= frame_count * TicksPerSec
    /\ (pc = "tail") =>
          frame_count <= Min(target_frame_num + 1, total_frames)
C21_ReadStep ==
    (cap_pos' = cap_pos + 1) =>
        /\ cap_pos = frame_count
        /\ cap_pos <= target_frame_num
        /\ cap_pos < total_frames
        /\ target_frame_num = TargetFrameNum(elapsed)
        /\ elapsed <= clock
C21_NeverAhead == [](C21_Inv) /\ [][C21_ReadStep]_vars

\* C21 witness: an iteration ends having written the target, a frame after
\* the first one, with an earlier frame dropped on the way
C21_Witness ==
    /\ state = "Running"
    /\ pc = "tail"
    /\ target_frame_num >= 1
    /\ frame_count = target_frame_num + 1
    /\ lastShown = target_frame_num
    /\ dropped_frames >= 1

\* C22: a looping session is never Completed; it leaves Running only as
\* Cancelled (interrupt) or Error (exception during playback).
C22_Inv == loop => (state # "Completed" /\ message # MsgCompleted)
C22_Step ==
    (loop /\ state = "Running" /\ state' # "Running") =>
        \/ state' = "Cancelled" /\ message' = MsgStopped
        \/ state' = "Error" /\ message' = MsgError
C22_LoopNeverCompletes == [](C22_Inv) /\ [][C22_Step]_vars

\* C22 witness: a looping session whose read failed earlier has just
\* restarted at the head of the loop with the duration exceeded, and runs on
C22_Witness ==
    /\ loop
    /\ state = "Running"
    /\ pc = "head"
    /\ justRestarted
    /\ readFailed
    /\ total_frames > 0
    /\ DurationExceeded(elapsed)
    /\ target_frame_num >= total_frames

=============================================================================
